---- MODULE Spec2Model ----
(***************************************************************************)
(* Model of the ZooKeeper charm (src/src/charm.py): the stored key         *)
(* material and keystore passwords, the keystores on disk, the cluster     *)
(* registry the charm consults, and the zookeeper.properties mapping that  *)
(* each hook hands to the renderer.                                        *)
(*                                                                         *)
(* One hook dispatch constructs the charm (ZookeeperCharm.__init__, which  *)
(* runs _generate_keystores) and then runs the handler of the event; the   *)
(* operator changes configuration options between hooks.                   *)
(***************************************************************************)
EXTENDS Integers, Sequences, FiniteSets, TLC

\* ------------------------------------------------------------------ bounds

\* Passwords genRandomPassword may hand out in one behaviour.
MaxPwd == 3
\* Self-signed generation rounds (one round: the quorum and the ssl pair).
MaxGen == 1
\* Largest myid a unit of the ensemble announces.
MaxId == 2
\* Value of the cluster-count option (expected ensemble size).
ClusterCount == 2
\* Options the operator changes between two hooks.
MaxChanged == 1

\* ------------------------------------------------------- configuration

\* Value of a path option that the operator left unset.
Unset == "<unset>"

\* base64 text of the certificate options: "", "certA".
EncodedCerts == {"", "Y2VydEE="}
\* base64 text of the key options: "", "keyA".
EncodedKeys == {"", "a2V5QQ=="}

\* base64.b64decode(x).decode("ascii") on the option values above.
B64Decode(e) ==
    CASE e = "" -> ""
      [] e = "Y2VydEE=" -> "certA"
      [] e = "a2V5QQ==" -> "keyA"

CustomKeystorePath == "/tmp/3jtieo-ks.jks"
CustomQuorumKeystorePath == "/tmp/3jtieo-quorum-ks.jks"

ConfigFields ==
    {"generate_root_ca", "ssl_quorum", "ssl_quorum_cert", "ssl_quorum_key",
     "ssl_cert", "ssl_key", "keystore_path", "quorum_keystore_path"}

DefaultConfig ==
    [generate_root_ca |-> FALSE, ssl_quorum |-> FALSE,
     ssl_quorum_cert |-> "", ssl_quorum_key |-> "",
     ssl_cert |-> "", ssl_key |-> "",
     keystore_path |-> Unset, quorum_keystore_path |-> Unset]

\* Number of options in which two configurations differ.
Distance(c, d) == Cardinality({f \in ConfigFields : c[f] # d[f]})

\* ------------------------------------------------------------- getters

get_ssl_cert(c, ks) ==
    IF c.generate_root_ca THEN ks.ssl_cert ELSE B64Decode(c.ssl_cert)

get_ssl_key(c, ks) ==
    IF c.generate_root_ca THEN ks.ssl_key ELSE B64Decode(c.ssl_key)

get_quorum_cert(c, ks) ==
    IF c.generate_root_ca THEN ks.quorum_cert ELSE B64Decode(c.ssl_quorum_cert)

get_quorum_key(c, ks) ==
    IF c.generate_root_ca THEN ks.quorum_key ELSE B64Decode(c.ssl_quorum_key)

get_ssl_keystore(c) ==
    IF c.keystore_path = Unset
    THEN "/var/ssl/private/kafka_ssl_ks.jks" ELSE c.keystore_path

get_quorum_keystore(c) ==
    IF c.quorum_keystore_path = Unset
    THEN "/var/ssl/private/kafka_quorum_ks.jks" ELSE c.quorum_keystore_path

get_quorum_truststore(c) == "/var/ssl/private,kafka_quorum_ts.jks"

\* ----------------------------------------------------- collaborators

\* genRandomPassword(): the n-th password handed out; "" is no password.
Pwd(n) == IF n = 0 THEN "" ELSE "pw" \o ToString(n)

\* generateSelfSigned(certname=...): the pair of the n-th generation round.
generateSelfSigned(certname, n) ==
    <<certname \o "-crt" \o ToString(n), certname \o "-key" \o ToString(n)>>

NoFile == [exists |-> FALSE, cert |-> "", key |-> "", pwd |-> ""]

\* PKCS12CreateKeystore(path, pwd, cert, key): the keystore file it writes.
PKCS12CreateKeystore(disk, path, pwd, cert, key) ==
    [disk EXCEPT ![path] = [exists |-> TRUE, cert |-> cert, key |-> key, pwd |-> pwd]]

KeystorePaths ==
    {"/var/ssl/private/kafka_ssl_ks.jks", "/var/ssl/private/kafka_quorum_ks.jks",
     "/var/ssl/private/zookeeper.keystore.jks",
     CustomKeystorePath, CustomQuorumKeystorePath}

\* ------------------------------------------------ _generate_keystores

MaterialFields == {"quorum_cert", "quorum_key", "ssl_cert", "ssl_key"}

\* A comparison that never finds the certificates the same.
CertificatesNeverTheSame(c, ks) == FALSE

\* Lines 140-143, "Check if the certificates remain the same": the fourth
\* conjunct compares quorum_key a second time; ssl_key is never compared.
CertificatesRemainTheSame(c, ks) ==
    /\ ks.quorum_cert = get_quorum_cert(c, ks)
    /\ ks.quorum_key = get_quorum_key(c, ks)
    /\ ks.ssl_cert = get_ssl_cert(c, ks)
    /\ ks.quorum_key = get_quorum_key(c, ks)

AllMaterialPresent(ks) ==
    /\ Len(ks.quorum_cert) > 0
    /\ Len(ks.quorum_key) > 0
    /\ Len(ks.ssl_cert) > 0
    /\ Len(ks.ssl_key) > 0

AlreadyGenerated(c, ks) == c.generate_root_ca /\ AllMaterialPresent(ks)

\* Lines 119-150: the stored material after the branch, and whether the method
\* returned early.
ObtainMaterial(c, s) ==
    IF AlreadyGenerated(c, s.ks) THEN [s EXCEPT !.returned = TRUE]
    ELSE IF c.generate_root_ca
    THEN LET n == s.nextGen + 1
             q == generateSelfSigned("quorum-zookeeper-root-ca", n)
             l == generateSelfSigned("ssl-zookeeper-root-ca", n)
         IN  [s EXCEPT !.nextGen = n,
                       !.ks.quorum_cert = q[1], !.ks.quorum_key = q[2],
                       !.ks.ssl_cert = l[1], !.ks.ssl_key = l[2]]
    ELSE IF CertificatesRemainTheSame(c, s.ks) THEN [s EXCEPT !.returned = TRUE]
    ELSE [s EXCEPT !.ks.quorum_cert = get_quorum_cert(c, s.ks),
                   !.ks.quorum_key = get_quorum_key(c, s.ks),
                   !.ks.ssl_cert = get_ssl_cert(c, s.ks),
                   !.ks.ssl_key = get_ssl_key(c, s.ks)]

\* Lines 151-165: the quorum keystore.  fail names the scope whose packaging
\* step raises in this hook.
BuildQuorumKeystore(c, s, fail) ==
    IF Len(s.ks.quorum_cert) > 0 /\ Len(s.ks.quorum_key) > 0
    THEN LET n == s.nextPwd + 1
             t == [s EXCEPT !.nextPwd = n, !.ks.ks_zookeeper_pwd = Pwd(n),
                            !.pwdNew = @ \cup {"quorum"}]
         IN  IF fail = "quorum" THEN [t EXCEPT !.raised = TRUE]
             ELSE [t EXCEPT !.disk = PKCS12CreateKeystore(
                                  t.disk, get_quorum_keystore(c),
                                  t.ks.ks_zookeeper_pwd,
                                  get_quorum_cert(c, t.ks), get_quorum_key(c, t.ks)),
                            !.builds = @ \cup {"quorum"}]
    ELSE s

\* Lines 166-180: the client (ssl) keystore.
BuildSslKeystore(c, s, fail) ==
    IF Len(s.ks.ssl_cert) > 0 /\ Len(s.ks.ssl_key) > 0
    THEN LET n == s.nextPwd + 1
             t == [s EXCEPT !.nextPwd = n, !.ks.ks_password = Pwd(n),
                            !.pwdNew = @ \cup {"ssl"}]
         IN  IF fail = "ssl" THEN [t EXCEPT !.raised = TRUE]
             ELSE [t EXCEPT !.disk = PKCS12CreateKeystore(
                                  t.disk, get_ssl_keystore(c),
                                  t.ks.ks_password,
                                  get_ssl_cert(c, t.ks), get_ssl_key(c, t.ks)),
                            !.builds = @ \cup {"ssl"}]
    ELSE s

\* Line 166 is reached unless the quorum packaging step raised.
AfterQuorumKeystore(c, q, fail) ==
    IF q.raised THEN q ELSE BuildSslKeystore(c, q, fail)

\* Lines 151-180 are reached unless the method returned at line 124 or 145.
AfterMaterial(c, m, fail) ==
    IF m.returned THEN m
    ELSE AfterQuorumKeystore(c, BuildQuorumKeystore(c, m, fail), fail)

\* _generate_keystores on the run state s = [ks, disk, nextPwd, nextGen,
\* builds, pwdNew, returned, raised]; returned is reset for each call.
GenerateKeystores(c, s, fail) ==
    AfterMaterial(c, ObtainMaterial(c, [s EXCEPT !.returned = FALSE]), fail)

\* ----------------------------------------------------- cluster registry
\* ZookeeperCluster (cluster.py): myid is 0 until assigned; members is the
\* list of known members in the order they were recorded.

SelfEndpoint == "zk-self:2888:3888"
RemoteEndpoint(id) == "zk-" \o ToString(id) \o ":2888:3888"

MemberIds(cl) == {cl.members[i].myid : i \in 1..Len(cl.members)}

\* Readiness that needs one member more than the expected size.
IsReadyStrict(cl) == Len(cl.members) > ClusterCount /\ cl.myid # 0

is_ready(cl) == Len(cl.members) >= ClusterCount /\ cl.myid # 0

\* The members in ascending myid order.
RECURSIVE SortedFrom(_, _)
SortedFrom(ms, ids) ==
    IF ids = {} THEN <<>>
    ELSE LET lo == CHOOSE x \in ids : \A y \in ids : x <= y
             m == CHOOSE i \in 1..Len(ms) : ms[i].myid = lo
         IN  <<[myid |-> lo, endpoint |-> ms[m].endpoint]>>
                 \o SortedFrom(ms, ids \ {lo})

get_peers(cl) == SortedFrom(cl.members, MemberIds(cl))

\* An id assignment that takes the number of known members plus one.
assignSelfIdByCount(cl) ==
    IF cl.myid # 0 THEN cl
    ELSE [myid |-> Len(cl.members) + 1,
          members |-> Append(cl.members,
                             [myid |-> Len(cl.members) + 1,
                              endpoint |-> SelfEndpoint, origin |-> "Self"])]

assignSelfId(cl) ==
    IF cl.myid # 0 THEN cl
    ELSE LET id == CHOOSE x \in 1..(Len(cl.members) + 1) :
                       /\ x \notin MemberIds(cl)
                       /\ \A y \in 1..(x - 1) : y \in MemberIds(cl)
         IN  [myid |-> id,
              members |-> Append(cl.members,
                                 [myid |-> id, endpoint |-> SelfEndpoint,
                                  origin |-> "Self"])]

\* An upsert that replaces the endpoint of a known id without a conflict.
recordPeerReplace(cl, id, endpoint) ==
    IF \E i \in 1..Len(cl.members) : cl.members[i].myid = id
    THEN [cl |-> [cl EXCEPT !.members =
                     [i \in 1..Len(@) |->
                        IF @[i].myid = id THEN [@[i] EXCEPT !.endpoint = endpoint]
                        ELSE @[i]]],
          raised |-> FALSE]
    ELSE [cl |-> [cl EXCEPT !.members =
                     Append(@, [myid |-> id, endpoint |-> endpoint,
                                origin |-> "Remote"])],
          raised |-> FALSE]

\* recordPeer: [cl, raised]; raised is ConflictError.
recordPeer(cl, id, endpoint) ==
    IF \E i \in 1..Len(cl.members) : cl.members[i].myid = id
    THEN LET i == CHOOSE j \in 1..Len(cl.members) : cl.members[j].myid = id
         IN  [cl |-> cl, raised |-> cl.members[i].endpoint # endpoint]
    ELSE [cl |-> [cl EXCEPT !.members =
                     Append(@, [myid |-> id, endpoint |-> endpoint,
                                origin |-> "Remote"])],
          raised |-> FALSE]

\* removePeer: the entry of the departed peer is deleted.
removePeer(cl, id) ==
    [cl EXCEPT !.members = SelectSeq(@, LAMBDA m : m.myid # id)]

\* ------------------------------------------------ _render_zk_properties

ClientPort == 2182

\* zk_props[k] = v on a dict kept as the sequence of its items.
Put(p, k, v) ==
    IF \E i \in 1..Len(p) : p[i][1] = k
    THEN [i \in 1..Len(p) |-> IF p[i][1] = k THEN <<k, v>> ELSE p[i]]
    ELSE Append(p, <<k, v>>)

Keys(p) == {p[i][1] : i \in 1..Len(p)}
Get(p, k) == p[CHOOSE i \in 1..Len(p) : p[i][1] = k][2]

\* The client section setting clientPort in the TLS branch as well.
ClientSectionBothPorts(c, ks, p) ==
    IF Len(ks.ssl_cert) > 0 /\ Len(ks.ssl_key) > 0
    THEN Put(Put(Put(p, "secureClientPort", ClientPort), "clientPort", ClientPort),
             "ssl.clientAuth", "need")
    ELSE Put(Put(p, "ssl.clientAuth", "none"), "clientPort", ClientPort)

\* Lines 233-263.
ClientSection(c, ks, p) ==
    IF Len(ks.ssl_cert) > 0 /\ Len(ks.ssl_key) > 0
    THEN LET p1 == Put(p, "secureClientPort", ClientPort)
             p2 == Put(p1, "serverCnxnFactory",
                       "org.apache.zookeeper.server.NettyServerCnxnFactory")
             p3 == Put(p2, "authProvider.x509",
                       "org.apache.zookeeper.server.auth.X509AuthenticationProvider")
             p4 == Put(p3, "sslQuorum", "false")
             p5 == Put(p4, "ssl.clientAuth", "need")
             p6 == Put(p5, "ssl.keyStore.location",
                       IF c.keystore_path = Unset
                       THEN "/var/ssl/private/zookeeper.keystore.jks"
                       ELSE c.keystore_path)
             p7 == Put(p6, "ssl.keyStore.password", ks.ks_password)
             p8 == Put(p7, "ssl.trustStore.location",
                       "/var/ssl/private/zookeeper.truststore.jks")
         IN  Put(p8, "ssl.trustStore.password", ks.ts_password)
    ELSE Put(Put(p, "ssl.clientAuth", "none"), "clientPort", ClientPort)

\* Lines 268-285.
QuorumSection(c, ks, p) ==
    IF c.ssl_quorum
    THEN LET p1 == Put(p, "serverCnxnFactory",
                       "org.apache.zookeeper.server.NettyServerCnxnFactory")
             p2 == Put(p1, "ssl.quorum.keyStore.location", get_quorum_keystore(c))
             p3 == Put(p2, "ssl.quorum.keyStore.password", ks.ks_zookeeper_pwd)
             p4 == Put(p3, "ssl.quorum.trustStore.location",
                       get_quorum_truststore(c))
             p5 == Put(p4, "ssl.quorum.trustStore.password", ks.ts_zookeeper_pwd)
         IN  Put(p5, "sslQuorum", "true")
    ELSE p

\* set_ssl_keypair given the keystore password in place of the truststore
\* password.
QuorumAnnouncementKeystorePwd(c, ks) ==
    IF c.ssl_quorum
    THEN {[op |-> "set_ssl_keypair", cert |-> get_quorum_cert(c, ks),
           truststore |-> get_quorum_truststore(c),
           password |-> ks.ks_zookeeper_pwd]}
    ELSE {}

\* Lines 271-277: the set_ssl_keypair call, with the certificate, truststore
\* path and truststore password it is given.
QuorumAnnouncement(c, ks) ==
    IF c.ssl_quorum
    THEN {[op |-> "set_ssl_keypair", cert |-> get_quorum_cert(c, ks),
           truststore |-> get_quorum_truststore(c),
           password |-> ks.ts_zookeeper_pwd]}
    ELSE {}

\* Lines 255-260: the set_mTLS_auth call.
ClientAnnouncement(c, ks) ==
    IF Len(ks.ssl_cert) > 0 /\ Len(ks.ssl_key) > 0
    THEN {[op |-> "set_mTLS_auth", cert |-> c.ssl_cert,
           truststore |-> "/var/ssl/private/zookeeper.truststore.jks",
           password |-> ks.ts_password]}
    ELSE {}

\* The announcements one run of _render_zk_properties makes; both calls stand
\* before the readiness gate of line 287.
Announcements(c, ks) == ClientAnnouncement(c, ks) \cup QuorumAnnouncement(c, ks)

ServerKey(id) == "server." \o ToString(id)

\* The loop of lines 291-294 stopping one peer early.
RECURSIVE ServerEntriesOffByOne(_, _, _)
ServerEntriesOffByOne(p, zk_list, i) ==
    IF i >= Len(zk_list) THEN p
    ELSE ServerEntriesOffByOne(Put(p, ServerKey(zk_list[i].myid),
                                   zk_list[i].endpoint),
                               zk_list, i + 1)

\* The loop of lines 291-294 walking the peer list from its end.
RECURSIVE ServerEntriesReversed(_, _, _)
ServerEntriesReversed(p, zk_list, i) ==
    IF i > Len(zk_list) THEN p
    ELSE ServerEntriesReversed(
             Put(p, ServerKey(zk_list[Len(zk_list) + 1 - i].myid),
                 zk_list[Len(zk_list) + 1 - i].endpoint),
             zk_list, i + 1)

\* Lines 291-294.
RECURSIVE ServerEntries(_, _, _)
ServerEntries(p, zk_list, i) ==
    IF i > Len(zk_list) THEN p
    ELSE ServerEntries(Put(p, ServerKey(zk_list[i].myid), zk_list[i].endpoint),
                       zk_list, i + 1)

\* ---------------------------------------------------------- unit status

\* The status of a unit whose charm has set none.
NoStatus == [kind |-> "unknown", message |-> ""]

BlockedStatus(message) == [kind |-> "blocked", message |-> message]
ActiveStatus(message) == [kind |-> "active", message |-> message]

\* _check_if_ready (lines 218-225): the status object the method constructs;
\* running is the answer of service_running(self.service).
check_if_ready(cl, running) ==
    IF ~is_ready(cl) THEN BlockedStatus("Waiting for cluster relation")
    ELSE IF ~running THEN BlockedStatus("Service not running confluent-zookeeper")
    ELSE ActiveStatus("confluent-zookeeper running")

\* The status of the unit after a statement that constructs a status object:
\* lines 220, 223, 225 and 289 are expression statements, the object is not
\* assigned to self.unit.status (or self.model.unit.status) and is dropped.
StatusAfter(status, constructed) == status

\* A gate that never blocks.
NeverBlocked(cl) == FALSE

\* Lines 287-290: the readiness gate.
Blocked(cl) == ~is_ready(cl)

\* _render_zk_properties with the readiness gate standing before the
\* announcements.
RenderZkPropertiesGateFirst(c, ks, cl) ==
    IF Blocked(cl)
    THEN [outcome |-> "Blocked", zk_props |-> <<>>, announced |-> {},
          status |-> BlockedStatus("Waiting for cluster to bootstrap")]
    ELSE [outcome |-> "Rendered",
          zk_props |-> ServerEntries(
                           QuorumSection(c, ks, ClientSection(c, ks, <<>>)),
                           get_peers(cl), 1),
          announced |-> Announcements(c, ks),
          status |-> NoStatus]

\* _render_zk_properties: [outcome, zk_props, announced, status]; zk_props is
\* what render() receives and is <<>> when render() is not called; status is
\* the status object line 289 constructs, NoStatus when it constructs none.
RenderZkProperties(c, ks, cl) ==
    LET p0 == Put(Put(<<>>, "dataDir", "/var/lib/zookeeper"),
                  "dataLogDir", "/var/lib/zookeeper-log")
        p1 == QuorumSection(c, ks, ClientSection(c, ks, p0))
    IN  IF Blocked(cl)
        THEN [outcome |-> "Blocked", zk_props |-> <<>>,
              announced |-> Announcements(c, ks),
              status |-> BlockedStatus("Waiting for cluster to bootstrap")]
        ELSE [outcome |-> "Rendered",
              zk_props |-> ServerEntries(p1, get_peers(cl), 1),
              announced |-> Announcements(c, ks),
              status |-> NoStatus]

\* ------------------------------------------------------------------ state

VARIABLES
    cfg,        \* the configuration options (self.config) the last hook read
    ks,         \* the StoredState self.ks
    disk,       \* the keystore file at each path
    nextPwd,    \* passwords handed out so far
    nextGen,    \* self-signed generation rounds so far
    cluster,    \* the registry: [myid, members]
    rendered,   \* the zk_props last handed to render(); <<>> before the first
    installed,  \* the install hook has completed
    unit_status, \* the status of the unit (self.unit.status)
    last        \* what the most recent hook did

vars == <<cfg, ks, disk, nextPwd, nextGen, cluster, rendered, installed,
          unit_status, last>>

Scopes == {"quorum", "ssl"}
ScopeFields(sc) ==
    IF sc = "quorum" THEN {"quorum_cert", "quorum_key"} ELSE {"ssl_cert", "ssl_key"}

\* The material the options supply when generate-root-ca is false.
Supplied(c) ==
    [quorum_cert |-> B64Decode(c.ssl_quorum_cert),
     quorum_key |-> B64Decode(c.ssl_quorum_key),
     ssl_cert |-> B64Decode(c.ssl_cert),
     ssl_key |-> B64Decode(c.ssl_key)]

Complete(k, sc) == \A f \in ScopeFields(sc) : Len(k[f]) > 0

Configs == [generate_root_ca : BOOLEAN, ssl_quorum : BOOLEAN,
            ssl_quorum_cert : EncodedCerts, ssl_quorum_key : EncodedKeys,
            ssl_cert : EncodedCerts, ssl_key : EncodedKeys,
            keystore_path : {Unset}, quorum_keystore_path : {Unset}]

\* The options a hook may find: the operator has run juju config on at most
\* MaxChanged options since the previous hook.  The two keystore path options
\* stay unset.
ConfigsNow == {c \in Configs : Distance(c, cfg) <= MaxChanged}

NoHook ==
    [outcome |-> "none", ready |-> FALSE, inputsSame |-> FALSE, announced |-> {}]

\* Lines 60-65; ks_password and ts_password get their defaults, one password
\* each, from the parent class.
Init ==
    /\ cfg = DefaultConfig
    /\ ks = [quorum_cert |-> "", quorum_key |-> "",
             ssl_cert |-> "", ssl_key |-> "",
             ts_zookeeper_pwd |-> "", ks_zookeeper_pwd |-> "",
             ks_password |-> "parent-ks-pw", ts_password |-> "parent-ts-pw"]
    /\ nextPwd = 0
    /\ disk = [p \in KeystorePaths |-> NoFile]
    /\ nextGen = 0
    /\ cluster = [myid |-> 0, members |-> <<>>]
    /\ rendered = <<>>
    /\ installed = FALSE
    /\ unit_status = NoStatus
    /\ last = NoHook

\* The run state a hook starts from.
RunState ==
    [ks |-> ks, disk |-> disk, nextPwd |-> nextPwd, nextGen |-> nextGen,
     builds |-> {}, pwdNew |-> {}, returned |-> FALSE, raised |-> FALSE]

\* Outcomes of a hook that ended without an exception.
Completed == {"Rendered", "Blocked", "Constructed"}

\* The record of a hook that read the options c: how it ended, is_ready when
\* its synthesis started, whether the previous hook completed with the same
\* options, and the announcements it made.
HookRecord(c, outcome, ready, announced) ==
    [outcome |-> outcome, ready |-> ready,
     inputsSame |-> last.outcome \in Completed /\ c = cfg,
     announced |-> announced]

\* A hook that ends in an exception, in the run state s: what the hook
\* assigned and wrote before the exception stays.
Raise(c, outcome, s) ==
    /\ cfg' = c
    /\ ks' = s.ks
    /\ disk' = s.disk
    /\ nextPwd' = s.nextPwd
    /\ nextGen' = s.nextGen
    /\ last' = HookRecord(c, outcome, FALSE, {})
    /\ UNCHANGED <<cluster, rendered, installed, unit_status>>

\* charm construction without a handler that touches this state (lines 44-67).
Construct(c, fail) ==
    \E s1 \in {GenerateKeystores(c, RunState, fail)} :
        /\ s1.nextPwd <= MaxPwd
        /\ s1.nextGen <= MaxGen
        /\ IF s1.raised THEN Raise(c, "KeystoreBuildError", s1)
           ELSE /\ cfg' = c
                /\ ks' = s1.ks
                /\ disk' = s1.disk
                /\ nextPwd' = s1.nextPwd
                /\ nextGen' = s1.nextGen
                /\ last' = HookRecord(c, "Constructed", FALSE, {})
                /\ UNCHANGED <<cluster, rendered, installed, unit_status>>

\* _on_config_changed calling _render_zk_properties before _generate_keystores:
\* the synthesis reads the stored state the hook started with.
DispatchRenderFirst(c, cl, fail) ==
    \E s1 \in {GenerateKeystores(c, RunState, fail)} :
    \E r \in {RenderZkProperties(c, ks, cl.cl)} :
        /\ s1.nextPwd <= MaxPwd
        /\ s1.nextGen <= MaxGen
        /\ cfg' = c
        /\ ks' = s1.ks
        /\ disk' = s1.disk
        /\ nextPwd' = s1.nextPwd
        /\ nextGen' = s1.nextGen
        /\ cluster' = cl.cl
        /\ rendered' = (IF r.outcome = "Rendered" THEN r.zk_props ELSE rendered)
        /\ installed' = TRUE
        /\ unit_status' = unit_status
        /\ last' = HookRecord(c, r.outcome, is_ready(cl.cl), r.announced)

\* _on_config_changed (lines 316-327) after charm construction (lines 44-67)
\* and the cluster handler of the event, whose result is cl.  c is the options
\* the hook reads; fail names the packaging step that raises ("none": the
\* packaging collaborator succeeds, as it does in every hook of Next);
\* running is what service_running answers in _check_if_ready.
Dispatch(c, cl, fail) ==
    \E s1 \in {GenerateKeystores(c, RunState, fail)} :
    \E s2 \in {IF s1.raised \/ cl.raised THEN s1
                ELSE GenerateKeystores(c, s1, fail)} :
    \E r \in {RenderZkProperties(c, s2.ks, cl.cl)} :
        /\ s2.nextPwd <= MaxPwd
        /\ s2.nextGen <= MaxGen
        /\ IF s1.raised THEN Raise(c, "KeystoreBuildError", s1)
           ELSE IF cl.raised THEN Raise(c, "ConflictError", s1)
           ELSE IF s2.raised THEN Raise(c, "KeystoreBuildError", s2)
           ELSE /\ cfg' = c
                /\ ks' = s2.ks
                /\ disk' = s2.disk
                /\ nextPwd' = s2.nextPwd
                /\ nextGen' = s2.nextGen
                /\ cluster' = cl.cl
                /\ rendered' = (IF r.outcome = "Rendered" THEN r.zk_props
                                ELSE rendered)
                /\ installed' = TRUE
                /\ unit_status' \in
                       {StatusAfter(StatusAfter(unit_status, r.status),
                                    check_if_ready(cl.cl, running)) :
                            running \in BOOLEAN}
                /\ last' = HookRecord(c, r.outcome, is_ready(cl.cl), r.announced)

\* _on_install (lines 182-208).
Install ==
    /\ ~installed
    /\ \E c \in ConfigsNow :
          Dispatch(c, [cl |-> cluster, raised |-> FALSE], "none")

\* _on_config_changed as the handler of config-changed.
ConfigChanged ==
    /\ installed
    /\ \E c \in ConfigsNow :
          Dispatch(c, [cl |-> cluster, raised |-> FALSE], "none")

\* _on_cluster_relation_joined (lines 210-212).
ClusterRelationJoined ==
    /\ installed
    /\ \E c \in ConfigsNow :
          Dispatch(c, [cl |-> assignSelfId(cluster), raised |-> FALSE], "none")

\* _on_cluster_relation_changed (lines 214-216): a peer announces its myid
\* and endpoint.
ClusterRelationChanged ==
    /\ installed
    /\ \E c \in ConfigsNow, id \in 1..MaxId :
          Dispatch(c, recordPeer(cluster, id, RemoteEndpoint(id)), "none")

\* on_zookeeper_relation_joined (lines 69-70): the handler touches none of
\* this state.
ZookeeperRelationJoined ==
    /\ installed
    /\ \E c \in ConfigsNow : Construct(c, "none")

Next ==
    \/ Install
    \/ ConfigChanged
    \/ ClusterRelationJoined
    \/ ClusterRelationChanged
    \/ ZookeeperRelationJoined

Spec == Init /\ [][Next]_vars

\* ------------------------------------------------ packaging failures
\* The hooks with a packaging collaborator that may fail.  __init__ runs
\* _generate_keystores before any handler, so a failing PKCS12CreateKeystore
\* raises during charm construction, whatever the event.  The assignments to
\* self.ks made before the exception are still in the charm object; whether
\* they outlive the failed hook is the framework's choice (kept: they are
\* committed or the charm object lives on; not kept: the stored state of a
\* failed hook is discarded).  The files written stay in both cases.

FailingScopes == {"quorum", "ssl"}

KeystoreBuildFails ==
    \E c \in ConfigsNow :
    \E fail \in FailingScopes :
    \E s1 \in {GenerateKeystores(c, RunState, fail)} :
    \E kept \in BOOLEAN :
        /\ s1.raised
        /\ s1.nextPwd <= MaxPwd
        /\ s1.nextGen <= MaxGen
        /\ Raise(c, "KeystoreBuildError",
                 IF kept THEN s1 ELSE [s1 EXCEPT !.ks = ks])

NextFail ==
    \/ Install
    \/ ConfigChanged
    \/ ClusterRelationJoined
    \/ KeystoreBuildFails

SpecFail == Init /\ [][NextFail]_vars

\* ------------------------------------------------ registry operations
\* The operations of the cluster registry on their own, on the same state:
\* peers announce themselves under either of two endpoints and depart.

\* A second endpoint a unit may announce for the id.
OtherEndpoint(id) == "zk-" \o ToString(id) \o "b:2888:3888"

\* The record of a registry operation with its arguments.
RegistryRecord(outcome, id, endpoint) ==
    [outcome |-> outcome, ready |-> is_ready(cluster'), inputsSame |-> FALSE,
     announced |-> {}, id |-> id, endpoint |-> endpoint]

AssignSelfId ==
    /\ cluster' = assignSelfId(cluster)
    /\ last' = RegistryRecord("Assigned", cluster'.myid, SelfEndpoint)
    /\ UNCHANGED <<cfg, ks, disk, nextPwd, nextGen, rendered, installed,
                   unit_status>>

RecordPeer ==
    \E id \in 1..(MaxId + 1) :
    \E endpoint \in {RemoteEndpoint(id), OtherEndpoint(id)} :
    \E r \in {recordPeer(cluster, id, endpoint)} :
        /\ cluster' = r.cl
        /\ last' = RegistryRecord(IF r.raised THEN "ConflictError" ELSE "Recorded",
                                  id, endpoint)
        /\ UNCHANGED <<cfg, ks, disk, nextPwd, nextGen, rendered, installed,
                       unit_status>>

RemovePeer ==
    \E i \in 1..Len(cluster.members) :
        /\ cluster.members[i].origin = "Remote"
        /\ cluster' = removePeer(cluster, cluster.members[i].myid)
        /\ last' = RegistryRecord("Removed", cluster.members[i].myid,
                                  cluster.members[i].endpoint)
        /\ UNCHANGED <<cfg, ks, disk, nextPwd, nextGen, rendered, installed,
                       unit_status>>

NextRegistry ==
    \/ AssignSelfId
    \/ RecordPeer
    \/ RemovePeer

SpecRegistry == Init /\ [][NextRegistry]_vars

TypeOK ==
    /\ nextPwd \in 0..MaxPwd
    /\ nextGen \in 0..MaxGen
    /\ installed \in BOOLEAN
    /\ cfg \in Configs

\* ----------------------------------------------------------------- claims

\* The hook that just ended ran _render_zk_properties to its end.
Synthesized == last.outcome \in {"Rendered", "Blocked"}

KeystorePathOf(c, sc) ==
    IF sc = "quorum" THEN get_quorum_keystore(c) ELSE get_ssl_keystore(c)

StoredPwd(k, sc) == IF sc = "quorum" THEN k.ks_zookeeper_pwd ELSE k.ks_password
StoredCert(k, sc) == IF sc = "quorum" THEN k.quorum_cert ELSE k.ssl_cert
StoredKey(k, sc) == IF sc = "quorum" THEN k.quorum_key ELSE k.ssl_key

\* The keystore of scope sc on disk was built from the stored certificate,
\* key and password of that scope.
KeystoreCurrent(sc) ==
    LET f == disk[KeystorePathOf(cfg, sc)]
    IN  /\ f.exists
        /\ f.cert = StoredCert(ks, sc)
        /\ f.key = StoredKey(ks, sc)
        /\ f.pwd = StoredPwd(ks, sc)

Has(p, k, v) == k \in Keys(p) /\ Get(p, k) = v

QuorumTlsDeclared(p) ==
    Has(p, "sslQuorum", "true") \/ "ssl.quorum.keyStore.location" \in Keys(p)

ClientTlsDeclared(p) ==
    "secureClientPort" \in Keys(p) \/ "ssl.keyStore.location" \in Keys(p)

\* The fields in which the material the options c supply differs from the
\* stored material k.
Differing(c, k) == {f \in MaterialFields : Supplied(c)[f] # k[f]}

\* C1: render() is called only in a hook whose cluster is ready; a synthesis
\* that finds the cluster not ready ends Blocked and leaves the rendered
\* configuration as it was.
C1_ReadinessGate ==
    [][/\ last'.outcome = "Rendered" => is_ready(cluster')
       /\ (last'.outcome \in {"Rendered", "Blocked"} /\ ~is_ready(cluster'))
            => (last'.outcome = "Blocked" /\ rendered' = rendered)]_vars

\* A synthesis ended Blocked on a cluster that is not ready.
C1_Witness ==
    /\ last.outcome = "Blocked"
    /\ ~is_ready(cluster)
    /\ cluster.myid # 0
    /\ rendered = <<>>

\* C2: a configuration that has just been rendered declares TLS for a scope
\* only if the keystore of that scope on disk was built from the stored
\* certificate, key and password of the scope.
C2_TlsBackedByKeystore ==
    last.outcome = "Rendered" =>
        /\ QuorumTlsDeclared(rendered) => KeystoreCurrent("quorum")
        /\ ClientTlsDeclared(rendered) => KeystoreCurrent("ssl")

\* C3: a hook that reads the options the previous, completed hook read builds
\* no keystore, draws no password and generates no certificate, and leaves the
\* stored material and passwords as they were.
C3_KeystoreIdempotence ==
    [][(last.outcome \in Completed /\ cfg' = cfg)
         => (ks' = ks /\ disk' = disk /\ nextPwd' = nextPwd
             /\ nextGen' = nextGen)]_vars

\* Both keystores are built and a further hook ran on the same options.
C3_Witness ==
    /\ last.inputsSame
    /\ last.outcome = "Rendered"
    /\ KeystoreCurrent("quorum")
    /\ KeystoreCurrent("ssl")

\* C4: with generate-root-ca false, a completed hook that finds a supplied
\* value different from the stored one leaves the stored material equal to the
\* supplied material, and has rebuilt, with a new password, the keystore of
\* every scope whose complete material changed.
C4_MaterialChangeDetected ==
    [][(/\ ~cfg'.generate_root_ca
        /\ last'.outcome \in Completed
        /\ Differing(cfg', ks) # {})
         => /\ Differing(cfg', ks') = {}
            /\ \A sc \in Scopes :
                 (Differing(cfg', ks) \cap ScopeFields(sc) # {}
                    /\ Complete(Supplied(cfg'), sc))
                   => /\ StoredPwd(ks', sc) # StoredPwd(ks, sc)
                      /\ disk'[KeystorePathOf(cfg', sc)].exists
                      /\ disk'[KeystorePathOf(cfg', sc)].pwd = StoredPwd(ks', sc)
                      /\ disk'[KeystorePathOf(cfg', sc)].cert
                             = Supplied(cfg')[IF sc = "quorum" THEN "quorum_cert"
                                              ELSE "ssl_cert"]]_vars

\* The keys of p that are not server entries.
NonServerKeys ==
    {"dataDir", "dataLogDir", "clientPort", "secureClientPort",
     "serverCnxnFactory", "authProvider.x509", "sslQuorum", "ssl.clientAuth",
     "ssl.keyStore.location", "ssl.keyStore.password",
     "ssl.trustStore.location", "ssl.trustStore.password",
     "ssl.quorum.keyStore.location", "ssl.quorum.keyStore.password",
     "ssl.quorum.trustStore.location", "ssl.quorum.trustStore.password"}

PeerList == {get_peers(cluster)[i] : i \in 1..Len(get_peers(cluster))}

\* C5: the rendered mapping holds each key once; for every member of the peer
\* list it holds server.<myid> with that member's endpoint, and every other
\* key of it is not a server entry.
C5_ServerEntryPerMember ==
    rendered # <<>> =>
        /\ \A i, j \in 1..Len(rendered) :
             rendered[i][1] = rendered[j][1] => i = j
        /\ \A m \in PeerList : Has(rendered, ServerKey(m.myid), m.endpoint)
        /\ \A k \in Keys(rendered) :
             k \in NonServerKeys \/ \E m \in PeerList : k = ServerKey(m.myid)

\* A configuration was rendered for a ready cluster that includes this unit.
C5_Witness ==
    /\ last.outcome = "Rendered"
    /\ Len(cluster.members) >= ClusterCount
    /\ ServerKey(cluster.myid) \in Keys(rendered)

\* The server entries of the mapping p, in the order they stand in it.
ServerPart(p) == SelectSeq(p, LAMBDA e : e[1] \notin NonServerKeys)

\* The myid whose server entry has the key k, 0 if k is no member's key.
IdOf(k, cl) ==
    IF \E id \in MemberIds(cl) : ServerKey(id) = k
    THEN CHOOSE id \in MemberIds(cl) : ServerKey(id) = k
    ELSE 0

\* The server entries of p are those of the members of cl, one each, in
\* ascending myid order.
ServersAscending(p, cl) ==
    LET sp == ServerPart(p)
    IN  /\ Len(sp) = Cardinality(MemberIds(cl))
        /\ \A i \in 1..Len(sp) : IdOf(sp[i][1], cl) # 0
        /\ \A i \in 1..(Len(sp) - 1) :
             IdOf(sp[i][1], cl) < IdOf(sp[i + 1][1], cl)

\* C6: in whatever order the members were recorded, the server entries of a
\* rendered mapping stand in ascending myid order and are those of the recorded
\* members; a hook that changes neither the set of members, the options nor the
\* stored material (a repeated announcement) renders the same mapping again.
C6_ServerOrder ==
    [][/\ last'.outcome = "Rendered" => ServersAscending(rendered', cluster')
       /\ (/\ last.outcome = "Rendered"
           /\ last'.outcome = "Rendered"
           /\ cfg' = cfg
           /\ ks' = ks
           /\ MemberIds(cluster') = MemberIds(cluster))
            => rendered' = rendered]_vars

\* A configuration was rendered again, on the same options, for members
\* recorded in descending myid order.
C6_Witness ==
    /\ last.outcome = "Rendered"
    /\ last.inputsSame
    /\ \E i, j \in 1..Len(cluster.members) :
         i < j /\ cluster.members[i].myid > cluster.members[j].myid

\* The options c supply exactly one of the certificate and the key of sc.
HalfSupplied(c, sc) ==
    \E f, g \in ScopeFields(sc) : Len(Supplied(c)[f]) > 0 /\ Len(Supplied(c)[g]) = 0

\* C7: with generate-root-ca false and a scope supplied with only one of
\* certificate and key, a synthesis on a ready cluster ends in
\* IncompleteMaterialError and renders nothing.
C7_IncompleteMaterialBlocks ==
    (/\ Synthesized
     /\ is_ready(cluster)
     /\ ~cfg.generate_root_ca
     /\ \E sc \in Scopes : HalfSupplied(cfg, sc))
        => (last.outcome = "IncompleteMaterialError" /\ last.outcome # "Rendered")

\* C8: with generate-root-ca true, a hook that starts with a complete stored
\* pair of a scope leaves that pair as it was.
C8_GeneratedMaterialKept ==
    [][cfg'.generate_root_ca
         => \A sc \in Scopes :
              Complete(ks, sc)
                => (StoredCert(ks', sc) = StoredCert(ks, sc)
                    /\ StoredKey(ks', sc) = StoredKey(ks, sc))]_vars

\* C9: with generate-root-ca false, a hook that finds only the material of
\* one scope changed leaves the keystore and the keystore password of the
\* other scope as they were.
C9_ScopeIndependence ==
    [][(~cfg'.generate_root_ca /\ last'.outcome \in Completed)
         => \A sc \in Scopes :
              (Differing(cfg', ks) # {} /\ Differing(cfg', ks) \subseteq ScopeFields(sc))
                => \A other \in Scopes \ {sc} :
                     /\ StoredPwd(ks', other) = StoredPwd(ks, other)
                     /\ disk'[KeystorePathOf(cfg', other)]
                            = disk[KeystorePathOf(cfg', other)]]_vars

\* Client TLS is on when the options supply a client certificate and key.
ClientTlsOn(c) == Complete(Supplied(c), "ssl")

\* C10: a configuration rendered with client and quorum TLS off is plaintext
\* (clientPort, no secureClientPort, no ssl.keyStore.* key, sslQuorum not
\* "true"); one rendered with client TLS on holds secureClientPort and
\* ssl.clientAuth = "need".
C10_ModeSelection ==
    last.outcome = "Rendered" =>
        /\ (~ClientTlsOn(cfg) /\ ~cfg.ssl_quorum)
             => /\ "clientPort" \in Keys(rendered)
                /\ "secureClientPort" \notin Keys(rendered)
                /\ "ssl.keyStore.location" \notin Keys(rendered)
                /\ "ssl.keyStore.password" \notin Keys(rendered)
                /\ ~Has(rendered, "sslQuorum", "true")
        /\ ClientTlsOn(cfg)
             => /\ "secureClientPort" \in Keys(rendered)
                /\ Has(rendered, "ssl.clientAuth", "need")

\* The password keys of each scope in zk_props.
KeystorePwdKey(sc) ==
    IF sc = "quorum" THEN "ssl.quorum.keyStore.password" ELSE "ssl.keyStore.password"

TruststorePwdKey(sc) ==
    IF sc = "quorum" THEN "ssl.quorum.trustStore.password"
    ELSE "ssl.trustStore.password"

TlsDeclared(p, sc) ==
    IF sc = "quorum" THEN QuorumTlsDeclared(p) ELSE ClientTlsDeclared(p)

\* The mapping p holds a non-empty value under the key k.
NonEmpty(p, k) == k \in Keys(p) /\ Get(p, k) # ""

\* C11: a rendered configuration that declares TLS for a scope holds a
\* non-empty keystore password and a non-empty truststore password of that
\* scope, and a further rendering on the same options holds the same passwords.
C11_PasswordsPresent ==
    [][/\ last'.outcome = "Rendered"
            => \A sc \in Scopes :
                 TlsDeclared(rendered', sc)
                   => /\ NonEmpty(rendered', KeystorePwdKey(sc))
                      /\ NonEmpty(rendered', TruststorePwdKey(sc))
       /\ (last.outcome = "Rendered" /\ last'.outcome = "Rendered" /\ cfg' = cfg)
            => \A sc \in Scopes :
                 \A k \in {KeystorePwdKey(sc), TruststorePwdKey(sc)} :
                     (k \in Keys(rendered) /\ k \in Keys(rendered'))
                       => Get(rendered', k) = Get(rendered, k)]_vars

\* The set_ssl_keypair announcement the options and the stored state call for.
KeypairAnnounced ==
    [op |-> "set_ssl_keypair", cert |-> get_quorum_cert(cfg, ks),
     truststore |-> get_quorum_truststore(cfg), password |-> ks.ts_zookeeper_pwd]

\* C12: a hook that ran _render_zk_properties with ssl_quorum true made the
\* set_ssl_keypair announcement with the quorum certificate, the quorum
\* truststore path and the truststore password, whether or not the cluster was
\* ready; with ssl_quorum false it made no set_ssl_keypair announcement.
C12_QuorumAnnouncement ==
    Synthesized =>
        /\ cfg.ssl_quorum => KeypairAnnounced \in last.announced
        /\ ~cfg.ssl_quorum => \A a \in last.announced : a.op # "set_ssl_keypair"

\* A synthesis with quorum TLS on announced a generated certificate.
C12_Witness ==
    /\ Synthesized
    /\ cfg.ssl_quorum
    /\ Len(get_quorum_cert(cfg, ks)) > 0
    /\ KeypairAnnounced \in last.announced

\* C19: every keystore password in a rendered configuration is the stored
\* password of its scope as the keystore generation of the same hook left it,
\* and is the password of the keystore most recently built for that scope.
C19_RegenerateBeforeRead ==
    last.outcome = "Rendered" =>
        \A sc \in Scopes :
            KeystorePwdKey(sc) \in Keys(rendered)
              => /\ Get(rendered, KeystorePwdKey(sc)) = StoredPwd(ks, sc)
                 /\ disk[KeystorePathOf(cfg, sc)].exists
                      => Get(rendered, KeystorePwdKey(sc))
                             = disk[KeystorePathOf(cfg, sc)].pwd

\* A configuration was rendered with the passwords of two keystores, one of
\* them rebuilt since it was first built.
C19_Witness ==
    /\ last.outcome = "Rendered"
    /\ \A sc \in Scopes :
         /\ KeystorePwdKey(sc) \in Keys(rendered)
         /\ disk[KeystorePathOf(cfg, sc)].exists
    /\ nextPwd >= 3

KeystoreLocationKey(sc) ==
    IF sc = "quorum" THEN "ssl.quorum.keyStore.location" ELSE "ssl.keyStore.location"

\* C20: the keystore location of each scope in a rendered configuration is
\* the path at which _generate_keystores builds the keystore of that scope.
C20_KeystorePathConsistent ==
    last.outcome = "Rendered" =>
        \A sc \in Scopes :
            KeystoreLocationKey(sc) \in Keys(rendered)
              => Get(rendered, KeystoreLocationKey(sc)) = KeystorePathOf(cfg, sc)

\* C16: after a hook that ran to the end of _on_config_changed the status of
\* the unit is a blocked or waiting status with a reason while the cluster is
\* not ready, and it is an active status only while the cluster is ready.
C16_StatusReported ==
    Synthesized =>
        /\ ~is_ready(cluster)
             => /\ unit_status.kind \in {"blocked", "waiting"}
                /\ unit_status.message # ""
        /\ unit_status.kind = "active" => is_ready(cluster)

\* The registry operation that just ended.
RegistryOps == {"Assigned", "Recorded", "ConflictError", "Removed"}

\* The number of known members and whether this unit has its own entry.
KnownMembers(cl) == Cardinality(MemberIds(cl))

SelfAssigned(cl) ==
    /\ cl.myid # 0
    /\ \E i \in 1..Len(cl.members) :
         cl.members[i] = [myid |-> cl.myid, endpoint |-> SelfEndpoint,
                          origin |-> "Self"]

\* C13: after every registry operation is_ready is true exactly when at least
\* cluster-count members are known and this unit has an assigned myid: false
\* below the threshold, true from the operation that reaches it, and false
\* again after a removal that drops the count below it.
C13_Readiness ==
    last.outcome \in RegistryOps =>
        /\ last.ready <=> (KnownMembers(cluster) >= ClusterCount
                             /\ SelfAssigned(cluster))
        /\ is_ready(cluster) <=> last.ready

\* A removal took a ready registry below the threshold.
C13_Witness ==
    /\ last.outcome = "Removed"
    /\ ~last.ready
    /\ SelfAssigned(cluster)
    /\ KnownMembers(cluster) = ClusterCount - 1

\* C14: the first assignSelfId takes the smallest positive integer no member
\* holds and records it for this unit; from then on no operation changes the
\* myid, and no other operation assigns one.
C14_SelfIdAssignment ==
    [][/\ cluster.myid # 0 => cluster'.myid = cluster.myid
       /\ (cluster.myid = 0 /\ last'.outcome = "Assigned")
            => /\ cluster'.myid >= 1
               /\ cluster'.myid \notin MemberIds(cluster)
               /\ \A y \in 1..(cluster'.myid - 1) : y \in MemberIds(cluster)
               /\ SelfAssigned(cluster')
               /\ MemberIds(cluster') = MemberIds(cluster) \cup {cluster'.myid}
       /\ (cluster.myid = 0 /\ last'.outcome # "Assigned")
            => cluster'.myid = 0]_vars

\* This unit holds myid 2, taken while a peer held 1, after that peer left
\* and a later assignSelfId.
C14_Witness ==
    /\ last.outcome = "Assigned"
    /\ cluster.myid = 2
    /\ 1 \notin MemberIds(cluster)

\* The members of cl that hold the id.
Holding(cl, id) == {cl.members[i] : i \in {j \in 1..Len(cl.members) :
                                               cl.members[j].myid = id}}

\* C15: the members hold pairwise different ids; recordPeer of an id that is
\* held with another endpoint ends in ConflictError and changes nothing,
\* recordPeer of an id held with the same endpoint changes nothing, and
\* recordPeer of a new id adds that member.
C15_RecordPeer ==
    [][/\ KnownMembers(cluster') = Len(cluster'.members)
       /\ last'.outcome \in {"Recorded", "ConflictError"}
            => IF \E m \in Holding(cluster, last'.id) :
                      m.endpoint # last'.endpoint
               THEN last'.outcome = "ConflictError" /\ cluster' = cluster
               ELSE IF Holding(cluster, last'.id) # {}
               THEN last'.outcome = "Recorded" /\ cluster' = cluster
               ELSE /\ last'.outcome = "Recorded"
                    /\ cluster'.members
                           = Append(cluster.members,
                                    [myid |-> last'.id,
                                     endpoint |-> last'.endpoint,
                                     origin |-> "Remote"])]_vars

\* recordPeer ended in ConflictError on a registry of three members.
C15_Witness ==
    /\ last.outcome = "ConflictError"
    /\ Len(cluster.members) = 3
    /\ \E m \in Holding(cluster, last.id) : m.endpoint # last.endpoint

\* C17: a hook that ends in KeystoreBuildError leaves the stored keystore
\* password of every scope whose keystore it did not build as it was: the
\* stored password stays that of the keystore on disk.
C17_FailureKeepsPassword ==
    [][last'.outcome = "KeystoreBuildError"
         => \A sc \in Scopes :
              disk'[KeystorePathOf(cfg', sc)] = disk[KeystorePathOf(cfg', sc)]
                => StoredPwd(ks', sc) = StoredPwd(ks, sc)]_vars

\* C18: the hook that follows a KeystoreBuildError on the same options, with
\* the packaging collaborator working, builds the keystore again: when it has
\* completed, every scope with a complete stored pair has a keystore on disk
\* built from the stored material and password.
C18_FailureRetried ==
    [][(/\ last.outcome = "KeystoreBuildError"
        /\ last'.outcome \in Completed
        /\ cfg' = cfg)
         => \A sc \in Scopes : Complete(ks', sc) => KeystoreCurrent(sc)']_vars

\* The mapping p holds exactly one of the two client ports, the secure one
\* with ssl.clientAuth "need" exactly when the stored client pair k is
\* complete, the plain one with ssl.clientAuth "none" otherwise.
OneClientPort(p, k) ==
    /\ ("clientPort" \in Keys(p)) # ("secureClientPort" \in Keys(p))
    /\ IF Complete(k, "ssl")
       THEN "secureClientPort" \in Keys(p) /\ Has(p, "ssl.clientAuth", "need")
       ELSE "clientPort" \in Keys(p) /\ Has(p, "ssl.clientAuth", "none")

\* C21: the property set a synthesis builds from an empty zookeeper-properties
\* option, rendered or not, holds exactly one of clientPort and
\* secureClientPort: secureClientPort with ssl.clientAuth = "need" exactly when
\* the stored client certificate and key are both non-empty, clientPort with
\* ssl.clientAuth = "none" otherwise.
C21_ClientPortExclusive ==
    /\ last.outcome = "Rendered" => OneClientPort(rendered, ks)
    /\ Synthesized
         => OneClientPort(QuorumSection(cfg, ks, ClientSection(cfg, ks, <<>>)), ks)

\* Configurations were rendered with the secure port and quorum TLS on.
C21_Witness ==
    /\ last.outcome = "Rendered"
    /\ Complete(ks, "ssl")
    /\ cfg.ssl_quorum
    /\ "secureClientPort" \in Keys(rendered)

AnnouncedOps == {a.op : a \in last.announced}

\* C22: a synthesis made the set_mTLS_auth announcement exactly when the
\* stored client pair is complete and the set_ssl_keypair announcement exactly
\* when ssl_quorum is on, also when it ended Blocked on a cluster that is not
\* ready.
C22_AnnouncedBeforeGate ==
    Synthesized =>
        /\ "set_mTLS_auth" \in AnnouncedOps <=> Complete(ks, "ssl")
        /\ "set_ssl_keypair" \in AnnouncedOps <=> cfg.ssl_quorum

\* A synthesis ended Blocked after making both announcements.
C22_Witness ==
    /\ last.outcome = "Blocked"
    /\ ~is_ready(cluster)
    /\ AnnouncedOps = {"set_mTLS_auth", "set_ssl_keypair"}

====
